---- MODULE Spec2Model ----
(***************************************************************************)
(* Trend-aware recommendation pipeline of fashion_poc:                     *)
(*   embed_index.py  upsert_item, build_faiss  (catalog, index artifact)   *)
(*   trend_metrics.py calc_trends              (trends table)              *)
(*   app.py          index load, recommend     (query path)                *)
(*                                                                         *)
(* The three programs are processes of their own over one database and    *)
(* one index file: build_faiss, calc_trends and recommend are taken        *)
(* statement by statement, and the steps of one interleave with the steps  *)
(* of the others, a call that has not returned yet included.  Rows come    *)
(* in any order and any number of times.                                   *)
(*                                                                         *)
(* Specifications.                                                         *)
(*   Spec       one style on two days, MaxRows rows, unfiltered calls for  *)
(*              every k                                                    *)
(*   SpecBoost  the same with MaxItems rows and calls for one item         *)
(*   SpecFilter two styles, MaxRows rows, calls filtered by a style        *)
(*   SpecRank   two styles, MaxRows rows, unfiltered calls                 *)
(*   SpecTx     rows with and without a day, MaxItems rows, the run of     *)
(*              calc_trends stopped from outside                           *)
(*   SpecBuild  embeddings of norm 0 and of another length, MaxRows rows,  *)
(*              the runs of build_faiss and calc_trends stopped from       *)
(*              outside                                                    *)
(*   SpecTrend  the columns calc_trends computes for one style             *)
(*                                                                         *)
(* Numbers.  Embeddings are integer vectors;  a unit vector has length     *)
(* Unit, so an inner product of two unit vectors is a similarity in units  *)
(* of 1/(Unit*Unit).  EMA values, velocities and combined scores are exact *)
(* rationals <<numerator, denominator>> with a positive denominator.       *)
(***************************************************************************)
EXTENDS Integers, Sequences, FiniteSets, TLC

\* ---------------------------------------------------------------- bounds
\* rows of table items, in the specifications that need three
MaxItems == 3
\* rows of table items, in the others
MaxRows == 2
MaxK == 2
MaxSpan == 5
MaxSeriesLen == 4
MaxDay == 5

\* ------------------------------------------------------ program constants
\* index.search(q, k*5)
OversampleFactor == 5
\* score = float(dist) + 0.25*trend_boost : the weight is 1/TrendWeightDen
TrendWeightDen == 4
\* def calc_trends(span=5)
DefaultSpan == 5
\* length of a normalized vector (1.0) in the fixed-point scale
Unit == 5
\* label of a result slot that holds no vector
NoLabel == -1
\* score of a result slot that holds no vector (the lowest float32)
LowestScore == -1000000

\* three of the six styles of STYLES, in string order
STYLES == <<"formal", "streetwear", "vintage">>

\* the day of a ts that parse_dates turns into NaT
NoDay == 0

StyleOrd(s) == CHOOSE i \in 1..Len(STYLES) : STYLES[i] = s

\* ----------------------------------------------------------- input sets
\* arguments of upsert_item: style, day of ts, stored embedding and file.
\* A row can be stored any number of times and the rows in any order.
Feed ==
  {[style |-> "formal", day |-> 1, emb |-> <<4, 3>>, path |-> 1],
   [style |-> "formal", day |-> 2, emb |-> <<4, 3>>, path |-> 2]}
Ks == -1..MaxK
Spans == 1..MaxSpan
CountValues == {1, 2, 4, 8}
CountSeqs == UNION {[1..n -> CountValues] : n \in 1..MaxSeriesLen}
\* the observed days of a style with n observed days, ascending; the days
\* left out are days without an item
DaySeqs(n) == {d \in [1..n -> 1..MaxDay] : \A i \in 1..(n - 1) : d[i] < d[i + 1]}

\* ------------------------------------------------------------ rationals
RLess(a, b) == a[1] * b[2] < b[1] * a[2]
REq(a, b) == a[1] * b[2] = b[1] * a[2]
RLeq(a, b) == a[1] * b[2] <= b[1] * a[2]
RSub(a, b) == <<a[1] * b[2] - b[1] * a[2], a[2] * b[2]>>
RAdd(a, b) == <<a[1] * b[2] + b[1] * a[2], a[2] * b[2]>>
RZero == <<0, 1>>

RECURSIVE Gcd(_, _)
Gcd(a, b) == IF b = 0 THEN a ELSE Gcd(b, a % b)

Abs(x) == IF x < 0 THEN -x ELSE x

\* lowest terms, so that equal values are equal states
RNorm(a) ==
  LET g == Gcd(Abs(a[1]), a[2])
  IN  <<a[1] \div g, a[2] \div g>>

RECURSIVE Pow(_, _)
Pow(b, e) == IF e = 0 THEN 1 ELSE b * Pow(b, e - 1)

\* --------------------------------------------------------------- vectors
\* inner product of two vectors of one length, 2 or 3
Dot(u, v) == u[1] * v[1] + u[2] * v[2] + (IF Len(u) > 2 THEN u[3] * v[3] ELSE 0)

Isqrt(n) == CHOOSE r \in 0..n : r * r <= n /\ (r + 1) * (r + 1) > n

\* faiss.normalize_L2: scale to unit length; a zero vector is left as it is
Normalize(v) ==
  LET norm == Isqrt(Dot(v, v))
  IN  IF norm = 0 THEN v
      ELSE [i \in 1..Len(v) |-> (v[i] * Unit) \div norm]

\* ------------------------------------------------------- trend_metrics.py
\* gdf["count"].ewm(span=span).mean() at position i (1-based) of the count
\* sequence c: the weighted mean of c[1..i] with weights (1-alpha)^(i-j),
\* alpha = 2/(span+1), so 1-alpha = (span-1)/(span+1).  Numerator and
\* denominator are both scaled by (span+1)^(i-1).
RECURSIVE EwmNum(_, _, _)
EwmNum(c, i, span) ==
  IF i = 1 THEN c[1]
  ELSE Pow(span + 1, i - 1) * c[i] + (span - 1) * EwmNum(c, i - 1, span)

RECURSIVE EwmDen(_, _)
EwmDen(i, span) ==
  IF i = 1 THEN 1
  ELSE Pow(span + 1, i - 1) + (span - 1) * EwmDen(i - 1, span)

EwmMean(c, i, span) == RNorm(<<EwmNum(c, i, span), EwmDen(i, span)>>)

\* gdf["ema"].diff(2).fillna(0): the difference to the day before the
\* previous one
VelocityLag(c, i, span) ==
  IF i <= 2 THEN RZero
  ELSE RNorm(RSub(EwmMean(c, i, span), EwmMean(c, i - 2, span)))

\* gdf["ema"].diff() with the first difference taken against 0
VelocityNoFill(c, i, span) ==
  IF i = 1 THEN EwmMean(c, 1, span)
  ELSE RNorm(RSub(EwmMean(c, i, span), EwmMean(c, i - 1, span)))

\* gdf["ema"].diff().fillna(0)
Velocity(c, i, span) ==
  IF i = 1 THEN RZero
  ELSE RNorm(RSub(EwmMean(c, i, span), EwmMean(c, i - 1, span)))

\* df.groupby(["style","day"]).size(): only pairs with at least one row
CountOf(its, s, d) ==
  Cardinality({i \in 1..Len(its) : its[i].style = s /\ its[i].day = d})

\* a row whose ts is NaT is in no group
DaysOf(its, s) ==
  {its[i].day : i \in {j \in 1..Len(its) : its[j].style = s /\ its[j].day # NoDay}}

\* gdf.sort_values("day"): the observed days of a style, ascending
RECURSIVE SortedDays(_)
SortedDays(D) ==
  IF D = {} THEN <<>>
  ELSE LET d == CHOOSE x \in D : \A y \in D : x <= y
       IN  <<d>> \o SortedDays(D \ {d})

\* the rows calc_trends appends to out
TrendRows(its, span) ==
  UNION {
    LET days == SortedDays(DaysOf(its, s))
        c == [i \in 1..Len(days) |-> CountOf(its, s, days[i])]
    IN  {[style |-> s, day |-> days[i], count |-> c[i],
          ema |-> EwmMean(c, i, span), velocity |-> Velocity(c, i, span)]
         : i \in 1..Len(days)}
    : s \in {its[i].style : i \in 1..Len(its)}}

\* ----------------------------------------------------------------- app.py
\* index.search(q, n) on a flat inner-product index: the min(n, size) best
\* positions by inner product, best first, then slots without a vector
\* (label -1, lowest score) up to n.  The library fixes no order among
\* equal scores, so every order of equal scores is an outcome.
RECURSIVE TopOrders(_, _, _, _)
TopOrders(ix, q, S, m) ==
  IF m = 0 \/ S = {} THEN {<<>>}
  ELSE LET best == {p \in S : \A r \in S : Dot(q, ix[r]) <= Dot(q, ix[p])}
       IN  UNION {{<<[label |-> p - 1, dist |-> Dot(q, ix[p])]>> \o t
                   : t \in TopOrders(ix, q, S \ {p}, m - 1)} : p \in best}

Padding(n) == [i \in 1..n |-> [label |-> NoLabel, dist |-> LowestScore]]

Min(a, b) == IF a < b THEN a ELSE b

Search(ix, q, n) ==
  LET m == Min(n, Len(ix))
  IN  {t \o Padding(n - m) : t \in TopOrders(ix, q, 1..Len(ix), m)}

\* trends.sort_values("day").groupby("style").tail(1): velocity of the row
\* with the greatest day, per style
LatestStyles(tr) == {r.style : r \in tr}

\* head(1) in place of tail(1): the row with the least day
LatestHead(tr, s) ==
  (CHOOSE r \in tr : r.style = s /\ \A o \in tr : o.style = s => r.day <= o.day).velocity

Latest(tr, s) ==
  (CHOOSE r \in tr : r.style = s /\ \A o \in tr : o.style = s => o.day <= r.day).velocity

\* latest.get(style, 0.0)
LatestGet(tr, s) == IF s \in LatestStyles(tr) THEN Latest(tr, s) ELSE RZero

\* the boost without the clamp at 0
NoClamp(v) == v

\* max(0.0, v)
Max0(v) == IF RLess(v, RZero) THEN RZero ELSE v

\* float(dist) + 0.25*trend_boost; the lowest float absorbs the addend
Score(dist, boost) ==
  IF dist = LowestScore THEN <<LowestScore, 1>>
  ELSE RNorm(RAdd(<<dist, Unit * Unit>>, <<boost[1], boost[2] * TrendWeightDen>>))

\* items.iloc[idx]: position idx from the start, or from the end when negative
IlocOk(its, idx) == -Len(its) <= idx /\ idx < Len(its)
Iloc(its, idx) == IF idx >= 0 THEN its[idx + 1] ELSE its[Len(its) + idx + 1]

\* if styles and row["style"] not in styles: continue
Skipped(styles, row) == styles # {} /\ row.style \notin styles

\* one accepted candidate: the tuple appended to chosen, with the position
\* of the candidate in the pool (rank), its label and the velocity read
\* for its style kept beside it
Entry(its, tr, pool, i) ==
  LET row == Iloc(its, pool[i].label)
      velocity == LatestGet(tr, row.style)
  IN  [score |-> Score(pool[i].dist, Max0(velocity)),
       path |-> row.path, style |-> row.style,
       rank |-> i, label |-> pool[i].label,
       velocity |-> velocity]

\* tuple order of (score, local_path, style)
KeyLess(a, b) ==
  \/ RLess(a.score, b.score)
  \/ REq(a.score, b.score) /\ a.path < b.path
  \/ REq(a.score, b.score) /\ a.path = b.path /\ StyleOrd(a.style) < StyleOrd(b.style)

Remove(s, i) == [j \in 1..(Len(s) - 1) |-> IF j < i THEN s[j] ELSE s[j + 1]]

\* chosen.sort(reverse=True): descending and stable
RECURSIVE SortReverse(_)
SortReverse(s) ==
  IF s = <<>> THEN <<>>
  ELSE LET top == {i \in 1..Len(s) : \A j \in 1..Len(s) : ~KeyLess(s[i], s[j])}
           i == CHOOSE x \in top : \A y \in top : x <= y
       IN  <<s[i]>> \o SortReverse(Remove(s, i))

\* if len(chosen) >= k: break
WalkStops(chosen, k) == Len(chosen) >= k

\* the order in which the loop takes the candidates of a pool of length n
WalkOrder(n) == [i \in 1..n |-> i]

\* a loop without the break
RECURSIVE WalkEvery(_, _, _, _, _, _, _, _)
WalkEvery(its, tr, styles, k, pool, order, j, acc) ==
  IF j > Len(order) THEN acc
  ELSE LET i == order[j] IN
       IF ~IlocOk(its, pool[i].label)
       THEN [acc EXCEPT !.failed = TRUE, !.walked = Append(@, i)]
       ELSE IF Skipped(styles, Iloc(its, pool[i].label))
       THEN WalkEvery(its, tr, styles, k, pool, order, j + 1,
                      [acc EXCEPT !.walked = Append(@, i)])
       ELSE WalkEvery(its, tr, styles, k, pool, order, j + 1,
                      [acc EXCEPT !.walked = Append(@, i),
                                  !.chosen = Append(@, Entry(its, tr, pool, i))])

\* a loop that scores every candidate passing the filter and keeps the k
\* best by combined score
WalkRanked(its, tr, styles, k, pool, order, j, acc) ==
  LET w == WalkEvery(its, tr, styles, k, pool, order, j, acc)
      best == SortReverse(w.chosen)
  IN  [w EXCEPT !.chosen = SubSeq(best, 1, Min(k, Len(best)))]

\* the for loop of recommend over the candidates order[j..]
RECURSIVE Walk(_, _, _, _, _, _, _, _)
Walk(its, tr, styles, k, pool, order, j, acc) ==
  IF j > Len(order) THEN acc
  ELSE LET i == order[j] IN
       IF ~IlocOk(its, pool[i].label)
       THEN [acc EXCEPT !.failed = TRUE, !.walked = Append(@, i)]
       ELSE IF Skipped(styles, Iloc(its, pool[i].label))
       THEN Walk(its, tr, styles, k, pool, order, j + 1,
                 [acc EXCEPT !.walked = Append(@, i)])
       ELSE LET nxt == [acc EXCEPT !.walked = Append(@, i),
                                   !.chosen = Append(@, Entry(its, tr, pool, i))]
            IN  IF WalkStops(nxt.chosen, k) THEN nxt
                ELSE Walk(its, tr, styles, k, pool, order, j + 1, nxt)

\* ----------------------------------------------------------------- state
VARIABLES
  tables,     \* table items exists in the database (ensure_tables has run)
  items,      \* rows of table items, in rowid order
  indexFile,  \* data/index.faiss: whether it exists, whether it was written
              \* to its end, and its stored vectors
  built,      \* build_faiss has run to its end at least once
  app,        \* the app.py process: "stopped", "serving" or "failed"
  index,      \* app.py's module-level index (read while serving)
  trends,     \* table trends: whether it exists, and its committed rows
  rec,        \* the recommend call under way: where it stands, what it
              \* has read so far, and its response until it is handed to
              \* the caller
  series,     \* one style group of calc_trends: its counts by ascending
              \* day, the span, and the ema and velocity columns
  txn,        \* the run of calc_trends: where it stands, what it read and
              \* computed, and the content of table trends inside its open
              \* transaction
  job         \* the run of build_faiss: where it stands and what it read

pipeline == <<tables, items, indexFile, built, app, index, trends, rec, txn, job>>
vars == <<tables, items, indexFile, built, app, index, trends, rec, series, txn, job>>

NoSeries ==
  [span |-> 0, counts |-> <<>>, days |-> <<>>, ema |-> <<>>, velocity |-> <<>>,
   rows |-> {}, done |-> FALSE]

Idle ==
  [outcome |-> "idle", error |-> "", q |-> <<0, 0>>, styles |-> {}, k |-> 0,
   n |-> 0, nsearch |-> 0, nreads |-> 0, pool |-> <<>>, items |-> <<>>,
   walked |-> <<>>, chosen |-> <<>>, trows |-> {}]

\* no run of calc_trends is under way
NoTxn ==
  [pc |-> "idle", read |-> <<>>, out |-> {},
   old |-> [exists |-> FALSE, rows |-> {}], work |-> {}]

\* no run of build_faiss is under way
NoJob ==
  [pc |-> "idle", X |-> <<>>,
   old |-> [present |-> FALSE, whole |-> FALSE, vecs |-> <<>>]]

\* the database as lines 15-17 of embed_index.py leave it: no table yet
Init ==
  /\ tables = FALSE
  /\ items = <<>>
  /\ indexFile = [present |-> FALSE, whole |-> FALSE, vecs |-> <<>>]
  /\ built = FALSE
  /\ app = "stopped"
  /\ index = <<>>
  /\ trends = [exists |-> FALSE, rows |-> {}]
  /\ rec = Idle
  /\ series = NoSeries
  /\ txn = NoTxn
  /\ job = NoJob

\* the call has reached its end (lines 40-42, or its exception) and has
\* not returned yet
Held == rec.outcome \in {"ok", "error"}

\* another connection has the write transaction of calc_trends open: a
\* statement that writes waits for the lock and raises OperationalError
\* (database is locked)
Locked == txn.pc \in {"deleted", "inserted"}

\* ---------------------------------------------------------- embed_index.py
\* CREATE TABLE IF NOT EXISTS items(...)
ensure_tables ==
  /\ tables' = TRUE
  /\ UNCHANGED <<items, indexFile, built, app, index, trends, rec, series, txn, job>>

\* INSERT INTO items(...): one more row at the end of the table.  Without
\* the table, or while the write lock is taken, the statement raises and
\* the table is as before.
upsert_item(row) ==
  /\ tables /\ ~Locked
  /\ items' = Append(items, row)
  /\ UNCHANGED <<tables, indexFile, built, app, index, trends, rec, series, txn, job>>

\* lines 67-69: the read of the stored embeddings; without the table the
\* SELECT raises, without rows the run returns
read_rows ==
  /\ job.pc = "idle"
  /\ job' = IF ~tables \/ Len(items) = 0 THEN NoJob
            ELSE [NoJob EXCEPT !.pc = "read", !.old = indexFile,
                               !.X = [i \in 1..Len(items) |-> items[i].emb]]
  /\ built' = (built \/ (tables /\ Len(items) = 0))
  /\ UNCHANGED <<tables, items, indexFile, app, index, trends, rec, series, txn>>

\* np.vstack accepts rows of one length only
SameLength(X) == \A i, j \in 1..Len(X) : Len(X[i]) = Len(X[j])

\* lines 70-73: vstack (raises on rows of different lengths),
\* normalize_L2, IndexFlatIP and add, all in memory
stack_rows ==
  /\ job.pc = "read"
  /\ IF SameLength(job.X)
     THEN job' = [job EXCEPT !.pc = "stacked",
                             !.X = [i \in 1..Len(job.X) |-> Normalize(job.X[i])]]
     ELSE job' = NoJob
  /\ UNCHANGED <<tables, items, indexFile, built, app, index, trends, rec, series, txn>>

\* line 74, faiss.write_index: the file data/index.faiss itself is opened
\* for writing, which empties it
write_open ==
  /\ job.pc = "stacked"
  /\ job' = [job EXCEPT !.pc = "writing"]
  /\ indexFile' = [present |-> TRUE, whole |-> FALSE, vecs |-> <<>>]
  /\ UNCHANGED <<tables, items, built, app, index, trends, rec, series, txn>>

\* line 74, faiss.write_index: the next vector reaches the file; with the
\* last one the file is closed and build_faiss returns
write_vector ==
  /\ job.pc = "writing"
  /\ LET n == Len(indexFile.vecs) + 1
     IN  /\ indexFile' = [present |-> TRUE, whole |-> n = Len(job.X),
                          vecs |-> Append(indexFile.vecs, job.X[n])]
         /\ job' = IF n = Len(job.X) THEN NoJob ELSE job
         /\ built' = (built \/ n = Len(job.X))
  /\ UNCHANGED <<tables, items, app, index, trends, rec, series, txn>>

\* build_faiss, statement by statement
build_faiss == read_rows \/ stack_rows \/ write_open \/ write_vector

\* the run is stopped where it stands (the process is ended, or the write
\* fails on a full disk): nothing is undone
stop_build ==
  /\ job.pc # "idle"
  /\ job' = NoJob
  /\ UNCHANGED <<tables, items, indexFile, built, app, index, trends, rec, series, txn>>

\* ------------------------------------------------------- trend_metrics.py
\* lines 9-19: the read of table items (it raises without the table) and
\* the rows of out
read_items(span) ==
  /\ txn.pc = "idle"
  /\ txn' = IF ~tables THEN NoTxn
            ELSE [NoTxn EXCEPT !.pc = "computed", !.read = items,
                               !.out = TrendRows(items, span), !.old = trends]
  /\ UNCHANGED <<tables, items, indexFile, built, app, index, trends, rec, series, job>>

\* line 21, CREATE TABLE IF NOT EXISTS: the sqlite3 driver opens a
\* transaction before DELETE and INSERT only, so the table is there for
\* every connection as soon as the statement has run
create_table ==
  /\ txn.pc = "computed"
  /\ txn' = [txn EXCEPT !.pc = "created"]
  /\ trends' = [trends EXCEPT !.exists = TRUE]
  /\ UNCHANGED <<tables, items, indexFile, built, app, index, rec, series, job>>

\* a DELETE that removes nothing
DeletedNone(rows) == rows

\* DELETE FROM trends: what is left of the rows
Deleted(rows) == {}

\* line 22: the driver begins the transaction; the delete is in it
delete_trends ==
  /\ txn.pc = "created"
  /\ txn' = [txn EXCEPT !.pc = "deleted", !.work = Deleted(trends.rows)]
  /\ UNCHANGED <<tables, items, indexFile, built, app, index, trends, rec, series, job>>

\* lines 23-24: INSERT with one parameter set per row of out.  Without
\* any row the statement runs once without parameters and raises; the
\* with block rolls the transaction back.
insert_trends ==
  /\ txn.pc = "deleted"
  /\ IF txn.out = {}
     THEN txn' = NoTxn
     ELSE txn' = [txn EXCEPT !.pc = "inserted", !.work = txn.work \cup txn.out]
  /\ UNCHANGED <<tables, items, indexFile, built, app, index, trends, rec, series, job>>

\* the end of the with block: COMMIT
commit_trends ==
  /\ txn.pc = "inserted"
  /\ txn' = NoTxn
  /\ trends' = [trends EXCEPT !.rows = txn.work]
  /\ UNCHANGED <<tables, items, indexFile, built, app, index, rec, series, job>>

\* calc_trends, statement by statement
calc_trends(span) ==
  read_items(span) \/ create_table \/ delete_trends \/ insert_trends \/ commit_trends

\* the run ends before its commit (the process is stopped, or the commit
\* is refused because the database is locked): the open transaction, if
\* any, is rolled back
rollback_trends ==
  /\ txn.pc # "idle"
  /\ txn' = NoTxn
  /\ UNCHANGED <<tables, items, indexFile, built, app, index, trends, rec, series, job>>

\* ----------------------------------------------------------------- app.py
\* index = faiss.read_index("data/index.faiss") at import; a file that
\* ends before its last vector is refused
AppStart ==
  /\ app = "stopped"
  /\ IF indexFile.present /\ indexFile.whole
     THEN app' = "serving" /\ index' = indexFile.vecs
     ELSE app' = "failed" /\ index' = index
  /\ UNCHANGED <<tables, items, indexFile, built, trends, rec, series, txn, job>>

Call(q, styles, k) == [Idle EXCEPT !.q = q, !.styles = styles, !.k = k]

Failure(call, err) == [call EXCEPT !.outcome = "error", !.error = err]

\* the pool size asked of the index
PoolSize(k) == k * OversampleFactor

\* the searches recommend issues: one, of the pool size
Searches(ix, q, k) == Search(ix, q, PoolSize(k))

\* the call after index.search has returned pool
Searched(call, pool) ==
  [call EXCEPT !.outcome = "searched", !.pool = pool, !.nsearch = 1]

\* lines 22-24: every way the search of a call recommend(user_img, styles,
\* k) can end.  A query of another length than the stored vectors is
\* refused.  A negative pool size is refused by an assertion on k in some
\* releases of the library and fails while the result arrays are
\* allocated in the others; a pool size of 0 is refused by that assertion
\* in some releases and answered with an empty pool in others.
Recommend(q, styles, k) ==
  LET call == [Call(q, styles, k) EXCEPT !.n = PoolSize(k)]
      nq == Normalize(q)
  IN  IF Len(index) > 0 /\ Len(index[1]) # Len(nq)
      THEN {Failure(call, "AssertionError")}
      ELSE IF PoolSize(k) < 0
      THEN {Failure(call, "AssertionError"), Failure(call, "ValueError")}
      ELSE IF PoolSize(k) = 0
      THEN {Failure(call, "AssertionError"), Searched(call, <<>>)}
      ELSE {Searched(call, pool) : pool \in Searches(index, nq, k)}

\* a call enters recommend and runs up to the return of index.search
recommend(q, styles, k) ==
  /\ app = "serving"
  /\ rec = Idle
  /\ rec' \in Recommend(q, styles, k)
  /\ UNCHANGED <<tables, items, indexFile, built, app, index, trends, series, txn, job>>

\* line 26, SELECT rowid,* FROM items: a statement of its own, it sees
\* the rows committed by now
select_items ==
  /\ rec.outcome = "searched"
  /\ rec' = [rec EXCEPT !.outcome = "read", !.items = items, !.nreads = 1]
  /\ UNCHANGED <<tables, items, indexFile, built, app, index, trends, series, txn, job>>

\* a read that sees the statements of a transaction that is still open
VisibleDirty(tab, tx) ==
  IF tx.pc \in {"deleted", "inserted"} THEN [tab EXCEPT !.rows = tx.work] ELSE tab

\* SELECT * FROM trends on recommend's connection: the committed table,
\* whatever an open transaction of another connection holds
Visible(tab, tx) == tab

\* lines 27-42 of recommend: the read of table trends, then the walk over
\* the pool with the rows of items read before, and the sort
AfterSearch(call) ==
  LET t == Visible(trends, txn)
  IN  IF ~t.exists
      THEN Failure(call, "OperationalError")
      ELSE LET w == Walk(call.items, t.rows, call.styles, call.k, call.pool,
                         WalkOrder(Len(call.pool)), 1,
                         [failed |-> FALSE, walked |-> <<>>, chosen |-> <<>>])
               d == [call EXCEPT !.nreads = 2, !.walked = w.walked, !.trows = t.rows]
           IN  IF w.failed THEN Failure(d, "IndexError")
               ELSE [d EXCEPT !.outcome = "ok", !.chosen = SortReverse(w.chosen)]

\* line 27 to the end of the call
select_trends ==
  /\ rec.outcome = "read"
  /\ rec' = AfterSearch(rec)
  /\ UNCHANGED <<tables, items, indexFile, built, app, index, trends, series, txn, job>>

\* return images, captions (or the exception leaves recommend)
Return ==
  /\ Held
  /\ rec' = Idle
  /\ UNCHANGED <<tables, items, indexFile, built, app, index, trends, series, txn, job>>

\* the three programs side by side, none of them stopped from outside,
\* over images of one style on two days, with unfiltered calls for every k
Next ==
  \/ ensure_tables
  \/ \E row \in Feed : Len(items) < MaxRows /\ upsert_item(row)
  \/ build_faiss
  \/ calc_trends(DefaultSpan)
  \/ AppStart
  \/ \E k \in Ks : recommend(<<3, 4>>, {}, k)
  \/ select_items
  \/ select_trends
  \/ Return

Spec == Init /\ [][Next]_vars

\* the same with one more row and calls for one item
NextBoost ==
  \/ ensure_tables
  \/ \E row \in Feed : Len(items) < MaxItems /\ upsert_item(row)
  \/ build_faiss
  \/ calc_trends(DefaultSpan)
  \/ AppStart
  \/ recommend(<<3, 4>>, {}, 1)
  \/ select_items
  \/ select_trends
  \/ Return

SpecBoost == Init /\ [][NextBoost]_vars

\* ---------------------------------------------------- app.py, the filter
\* images of two styles
RankFeed ==
  {[style |-> "formal", day |-> 1, emb |-> <<4, 3>>, path |-> 1],
   [style |-> "streetwear", day |-> 1, emb |-> <<6, 8>>, path |-> 1]}

\* the same programs over these images, with calls filtered by a style
NextFilter ==
  \/ ensure_tables
  \/ \E row \in RankFeed : Len(items) < MaxRows /\ upsert_item(row)
  \/ build_faiss
  \/ calc_trends(DefaultSpan)
  \/ AppStart
  \/ \E k \in 1..MaxK : recommend(<<3, 4>>, {"formal"}, k)
  \/ select_items
  \/ select_trends
  \/ Return

SpecFilter == Init /\ [][NextFilter]_vars

\* the same with unfiltered calls
NextRank ==
  \/ ensure_tables
  \/ \E row \in RankFeed : Len(items) < MaxRows /\ upsert_item(row)
  \/ build_faiss
  \/ calc_trends(DefaultSpan)
  \/ AppStart
  \/ \E k \in 1..MaxK : recommend(<<3, 4>>, {}, k)
  \/ select_items
  \/ select_trends
  \/ Return

SpecRank == Init /\ [][NextRank]_vars

\* -------------------------------------- embed_index.py, odd embeddings
\* stored embeddings build_faiss can meet besides unit vectors of one
\* length: a vector of norm 0 and a vector of another length
BuildFeed ==
  {[style |-> "formal", day |-> 1, emb |-> <<0, 0>>, path |-> 4],
   [style |-> "formal", day |-> 1, emb |-> <<3, 0, 4>>, path |-> 5]}

\* the same programs over these embeddings, the runs of build_faiss and
\* calc_trends stopped from outside at any point, with unfiltered calls
\* for one item
NextBuild ==
  \/ ensure_tables
  \/ \E row \in BuildFeed : Len(items) < MaxRows /\ upsert_item(row)
  \/ build_faiss
  \/ stop_build
  \/ calc_trends(DefaultSpan)
  \/ rollback_trends
  \/ AppStart
  \/ recommend(<<4, 3>>, {}, 1)
  \/ select_items
  \/ select_trends
  \/ Return

SpecBuild == Init /\ [][NextBuild]_vars

\* ------------------------------------------- trend_metrics.py, the table
\* an image as the main loop stores it: once with the time of the run as
\* ts, once with the ts of public_meta.csv, '' without an entry
TxFeed ==
  {[style |-> "formal", day |-> 1, emb |-> <<4, 3>>, path |-> 1],
   [style |-> "formal", day |-> NoDay, emb |-> <<4, 3>>, path |-> 1]}

\* the same programs over these rows, the run of calc_trends stopped from
\* outside at any point, with unfiltered calls for one item
NextTx ==
  \/ ensure_tables
  \/ \E row \in TxFeed : Len(items) < MaxItems /\ upsert_item(row)
  \/ build_faiss
  \/ calc_trends(DefaultSpan)
  \/ rollback_trends
  \/ AppStart
  \/ recommend(<<4, 3>>, {}, 1)
  \/ select_items
  \/ select_trends
  \/ Return

SpecTx == Init /\ [][NextTx]_vars

\* --------------------------------------- trend_metrics.py, one style group
\* n rows of table items of one style on day d
RECURSIVE ItemsOn(_, _)
ItemsOn(d, n) ==
  IF n = 0 THEN <<>>
  ELSE <<[style |-> "formal", day |-> d, emb |-> <<4, 3>>, path |-> n]>> \o ItemsOn(d, n - 1)

\* a table items with counts[i] rows on days[i] for i = 1..n, the rows of
\* the latest day first
RECURSIVE CatalogOf(_, _, _)
CatalogOf(counts, days, n) ==
  IF n = 0 THEN <<>>
  ELSE ItemsOn(days[n], counts[n]) \o CatalogOf(counts, days, n - 1)

\* lines 9-19 of calc_trends for a table of one style: the ema and the
\* velocity column over its counts by ascending day, and the rows of out
InitTrend ==
  /\ tables = TRUE
  /\ items = <<>>
  /\ indexFile = [present |-> FALSE, whole |-> FALSE, vecs |-> <<>>]
  /\ built = FALSE
  /\ app = "stopped"
  /\ index = <<>>
  /\ trends = [exists |-> FALSE, rows |-> {}]
  /\ rec = Idle
  /\ txn = NoTxn
  /\ job = NoJob
  /\ \E sp \in Spans, c \in CountSeqs :
       \E d \in DaySeqs(Len(c)) :
         series = [NoSeries EXCEPT !.span = sp, !.counts = c, !.days = d]

style_group ==
  /\ ~series.done
  /\ series' = [series EXCEPT
       !.ema = [i \in 1..Len(series.counts) |-> EwmMean(series.counts, i, series.span)],
       !.velocity = [i \in 1..Len(series.counts) |-> Velocity(series.counts, i, series.span)],
       !.rows = TrendRows(CatalogOf(series.counts, series.days, Len(series.counts)),
                          series.span),
       !.done = TRUE]
  /\ UNCHANGED pipeline

NextTrend == style_group

SpecTrend == InitTrend /\ [][NextTrend]_vars

\* ------------------------------------------------------------ properties
Answered == rec.outcome = "ok"
Chosen == rec.chosen
Slots == 1..Len(rec.pool)

\* the row of table items, as read by the call, that the walk resolves
\* slot i of the pool to
SlotRow(i) == Iloc(rec.items, rec.pool[i].label)

\* slot i passes the category filter of the call
SlotPasses(i) == rec.styles = {} \/ SlotRow(i).style \in rec.styles

\* the candidates of the pool: the slots that hold a stored vector
Candidates == {i \in Slots : rec.pool[i].label # NoLabel}

\* C1: for k >= 1 the returned list is sorted by combined score descending,
\* and two returned entries with equal combined score appear in the order
\* of their similarity-search rank (ranks are distinct, so no tie remains
\* for the item id to break).
C1_SortedByScoreThenRank ==
  (Answered /\ rec.k >= 1) =>
    \A i, j \in 1..Len(Chosen) :
      i < j =>
        /\ RLeq(Chosen[j].score, Chosen[i].score)
        /\ REq(Chosen[i].score, Chosen[j].score) => Chosen[i].rank < Chosen[j].rank

\* C2: for k >= 1 the accepted entries are exactly the first min(k, m)
\* candidates of the pool that pass the filter (m = number of passing
\* candidates; a candidate is skipped iff the filter is non-empty and its
\* category is not in it), the walk stops at the k-th accepted candidate or
\* at the last candidate, and the result has at most k entries and none
\* whose category is outside a non-empty filter.
C2_AcceptedAreFirstPassing ==
  (Answered /\ rec.k >= 1) =>
    LET P == {i \in Candidates : SlotPasses(i)}
        want == Min(rec.k, Cardinality(P))
        firsts == {i \in P : Cardinality({j \in P : j < i}) < want}
        last == IF Cardinality(P) >= rec.k
                THEN CHOOSE i \in firsts : \A j \in firsts : j <= i
                ELSE Cardinality(Candidates)
    IN  /\ {Chosen[x].rank : x \in 1..Len(Chosen)} = firsts
        /\ Len(Chosen) = want
        /\ Len(Chosen) <= rec.k
        /\ \A x \in 1..Len(Chosen) :
             rec.styles # {} => Chosen[x].style \in rec.styles
        /\ rec.walked = [i \in 1..last |-> i]

\* the same for the calls whose walk ends within the candidates
C2_HoldsWithinCandidates ==
  (\A x \in 1..Len(rec.walked) : rec.walked[x] \in Candidates) =>
    C2_AcceptedAreFirstPassing

\* a call with k = 1 and a filter whose first candidate is skipped and
\* whose second candidate is accepted: the walk ends there
C2_SkipThenAcceptReached ==
  /\ Answered /\ rec.k = 1 /\ rec.styles = {"formal"}
  /\ Len(rec.walked) = 2 /\ Len(Chosen) = 1
  /\ ~SlotPasses(1) /\ 2 \in Candidates

\* the positions of the loaded index whose catalog row passes the filter
Satisfying ==
  {p \in 0..(Len(index) - 1) : rec.styles = {} \/ rec.items[p + 1].style \in rec.styles}

\* C3: unless the read of the trend table fails for want of the table, a call with k greater than the number
\* of indexed items that satisfy the filter raises no error and returns
\* all the satisfying items, each once, and nothing else.
C3_AllSatisfyingReturned ==
  (Held /\ rec.k >= 1 /\ rec.error # "OperationalError"
     /\ rec.k > Cardinality(Satisfying)) =>
    /\ Answered
    /\ Len(Chosen) = Cardinality(Satisfying)
    /\ {Chosen[x].label : x \in 1..Len(Chosen)} = Satisfying

\* C4: a call with k >= 1 walks the outcome of one search of pool size
\* k * 5 (never of a larger pool), and when no candidate of that pool has a
\* category in the non-empty filter the returned list is empty.
C4_OneSearchOfPoolSize ==
  (Held /\ rec.k >= 1) =>
    /\ rec.nsearch = 1
    /\ rec.n = rec.k * OversampleFactor
    /\ rec.pool \in Search(index, Normalize(rec.q), rec.k * OversampleFactor)
    /\ (Answered /\ rec.styles # {} /\ \A i \in Candidates : ~SlotPasses(i))
         => Chosen = <<>>

\* the search itself: one, of pool size k * 5, on the loaded index
C4_OneSearch ==
  (Held /\ rec.k >= 1) =>
    /\ rec.nsearch = 1
    /\ rec.n = rec.k * OversampleFactor
    /\ rec.pool \in Search(index, Normalize(rec.q), rec.k * OversampleFactor)

\* a filter that matches no candidate and not the last row of the table
\* either: the call returns the empty list
C4_EmptyAnswerReached ==
  /\ Answered /\ rec.k >= 1 /\ rec.styles = {"formal"}
  /\ Len(rec.pool) = rec.k * OversampleFactor
  /\ Candidates # {}
  /\ Chosen = <<>>

\* C5: a call with k <= 0 fails, before any index search and before any
\* table read; it never returns a result (stated for the calls that do not
\* fail for want of table trends, so that no other failure stands in for
\* the rejection).
C5_NonPositiveKRejected ==
  (Held /\ rec.k <= 0 /\ rec.error # "OperationalError") =>
    rec.outcome = "error" /\ rec.nsearch = 0 /\ rec.nreads = 0

\* the velocity of the latest row of a style in the trend table as read
\* by the call, 0 when it has none
VelocityUsed(style) ==
  IF \E r \in rec.trows : r.style = style
  THEN LET r == CHOOSE x \in rec.trows :
                  x.style = style /\ \A o \in rec.trows : o.style = style => o.day <= x.day
       IN  r.velocity
  ELSE RZero

\* C6: every accepted candidate that is a stored vector has combined score
\* similarity + (1/4) * max(0, latest velocity of its category); no accepted
\* entry scores below its similarity, and a category with negative or
\* unknown velocity gets a boost of exactly 0.
C6_ScoreIsSimilarityPlusClampedBoost ==
  Answered =>
    \A x \in 1..Len(Chosen) :
      LET e == Chosen[x]
          sim == <<rec.pool[e.rank].dist, Unit * Unit>>
          v == VelocityUsed(e.style)
          boost == IF v[1] > 0 THEN <<v[1], v[2] * TrendWeightDen>> ELSE RZero
      IN  /\ e.label # NoLabel => REq(e.score, RAdd(sim, boost))
          /\ e.label # NoLabel => RLeq(sim, e.score)
          /\ e.label = NoLabel => e.score[1] >= rec.pool[e.rank].dist
          /\ (e.label # NoLabel /\ v[1] <= 0) => REq(e.score, sim)

\* an accepted stored vector of a category whose latest velocity is
\* negative: its combined score is its similarity
C6_Witness ==
  /\ Answered
  /\ \E x \in 1..Len(Chosen) :
       /\ Chosen[x].label # NoLabel
       /\ VelocityUsed(Chosen[x].style)[1] < 0
       /\ REq(Chosen[x].score, <<rec.pool[Chosen[x].rank].dist, Unit * Unit>>)

\* C7: the candidates of the search come by non-increasing score, of two
\* candidates with equal score the one inserted earlier into the index
\* comes first, and the walk takes the candidates in exactly this order.
C7_SearchOrderedTiesByInsertion ==
  (Answered /\ rec.k >= 1) =>
    /\ \A i, j \in Slots :
         (i < j /\ rec.pool[i].label # NoLabel /\ rec.pool[j].label # NoLabel) =>
           /\ rec.pool[i].dist >= rec.pool[j].dist
           /\ rec.pool[i].dist = rec.pool[j].dist => rec.pool[i].label < rec.pool[j].label
    /\ rec.walked = [i \in 1..Len(rec.walked) |-> i]

\* C8: the search hands the scorer at most min(n, size) candidates, each a
\* vector stored in the index, and none at all for an empty index.
C8_CandidatesAreStoredVectors ==
  (Held /\ rec.k >= 1) =>
    /\ Len(rec.walked) <= Min(rec.n, Len(index))
    /\ \A x \in 1..Len(rec.walked) :
         rec.pool[rec.walked[x]].label \in 0..(Len(index) - 1)

\* C9: with a catalog of zero items, once the index build has run and the
\* app has been started, the app serves (and so answers recommend with an
\* empty list) instead of failing.
C9_EmptyCatalogServes ==
  (Len(items) = 0 /\ built /\ app # "stopped") =>
    /\ app = "serving"
    /\ Held => (Answered /\ Chosen = <<>>)

\* alpha*c[i] + (1-alpha)*prev with alpha = 2/(span+1)
Smoothed(ci, prev, span) ==
  RAdd(<<2 * ci, span + 1>>, <<(span - 1) * prev[1], (span + 1) * prev[2]>>)

\* C10: ema[0] = count[0] and ema[i] = alpha*count[i] +
\* (1-alpha)*ema[i-1] with alpha = 2/(emaSpan+1); counts [2,2,8,2] with
\* emaSpan = 3 give ema [2, 2, 5, 3.5] and velocity [0, 0, 3, -1.5].
C10_RecursiveEma ==
  series.done =>
    /\ REq(series.ema[1], <<series.counts[1], 1>>)
    /\ \A i \in 2..Len(series.counts) :
         REq(series.ema[i], Smoothed(series.counts[i], series.ema[i - 1], series.span))
    /\ (series.span = 3 /\ series.counts = <<2, 2, 8, 2>>) =>
         /\ series.ema = <<<<2, 1>>, <<2, 1>>, <<5, 1>>, <<7, 2>>>>
         /\ series.velocity = <<<<0, 1>>, <<0, 1>>, <<3, 1>>, <<-3, 2>>>>

\* sum over j = 1..n of (span-1)^(i-j) * (span+1)^(j-1) * w[j]: the sum of
\* (1-alpha)^(i-j) * w[j], scaled by (span+1)^(i-1)
RECURSIVE WeightedSum(_, _, _, _)
WeightedSum(w, i, span, n) ==
  IF n = 0 THEN 0
  ELSE Pow(span - 1, i - n) * Pow(span + 1, n - 1) * w[n] + WeightedSum(w, i, span, n - 1)

\* what ewm(span).mean() gives instead: ema[i] is the weighted mean of
\* count[0..i] with weights (1-alpha)^(i-j), alpha = 2/(emaSpan+1); counts
\* [2,2,8,2] with emaSpan = 3 give ema [2, 2, 38/7, 18/5] and velocity
\* [0, 0, 24/7, -64/35].
C10_WeightedMeanComputed ==
  series.done =>
    /\ REq(series.ema[1], <<series.counts[1], 1>>)
    /\ \A i \in 1..Len(series.counts) :
         REq(series.ema[i],
             <<WeightedSum(series.counts, i, series.span, i),
               WeightedSum([j \in 1..i |-> 1], i, series.span, i)>>)
    /\ (series.span = 3 /\ series.counts = <<2, 2, 8, 2>>) =>
         /\ series.ema = <<<<2, 1>>, <<2, 1>>, <<38, 7>>, <<18, 5>>>>
         /\ series.velocity = <<<<0, 1>>, <<0, 1>>, <<24, 7>>, <<-64, 35>>>>

\* the scenario of counts 2, 2, 8, 2 under span 3 has been computed
C10_ScenarioReached ==
  /\ series.done /\ series.span = 3 /\ series.counts = <<2, 2, 8, 2>>
  /\ series.ema[3] = <<38, 7>>

\* the rows of the computed table for one style, by ascending day
RECURSIVE RowsByDay(_)
RowsByDay(R) ==
  IF R = {} THEN <<>>
  ELSE LET r == CHOOSE x \in R : \A y \in R : x.day <= y.day
       IN  <<r>> \o RowsByDay(R \ {r})

\* C11: the computed table has one row per observed day of the category
\* and none for a day without items; the velocity of the first observed
\* day is 0 and the velocity of each later observed day is its ema minus
\* the ema of the previous observed day, however many days lie between
\* them; a category with one observed day gets one row with velocity 0.
C11_VelocityIsEmaDifference ==
  series.done =>
    LET rs == RowsByDay(series.rows)
    IN  /\ Len(rs) = Len(series.days)
        /\ \A i \in 1..Len(rs) :
             /\ rs[i].day = series.days[i]
             /\ rs[i].count = series.counts[i]
             /\ rs[i].velocity = series.velocity[i]
        /\ rs[1].velocity = RZero
        /\ \A i \in 2..Len(rs) :
             rs[i].velocity = RNorm(RSub(rs[i].ema, rs[i - 1].ema))
        /\ Len(series.days) = 1 => {r.velocity : r \in series.rows} = {RZero}

\* a category observed on days 1, 3 and 5 only, with changing counts: the
\* velocity of day 5 is the ema of day 5 minus the ema of day 3, not 0
C11_Witness ==
  /\ series.done /\ series.days = <<1, 3, 5>>
  /\ \E r \in series.rows : r.day = 5 /\ r.velocity # RZero
  /\ \A r \in series.rows : r.day = 1 => r.velocity = RZero

\* the rows of a style in the trend table as read by the call
PointsOf(style) == {r \in rec.trows : r.style = style}

\* C12: for every accepted candidate the velocity the scorer reads for its
\* category is the velocity of the category's row with the greatest day in
\* the trend table, and 0 when the table has no row of that category (the
\* call is answered all the same).
C12_LatestVelocityOrZero ==
  Answered =>
    \A x \in 1..Len(Chosen) :
      LET P == PointsOf(Chosen[x].style)
      IN  /\ P = {} => Chosen[x].velocity = RZero
          /\ P # {} =>
               \E r \in P : /\ \A o \in P : o.day <= r.day
                            /\ Chosen[x].velocity = r.velocity

\* an accepted candidate of a category that has two rows in the table, the
\* later one with a velocity other than 0 and other than the earlier one's
C12_Witness ==
  /\ Answered
  /\ \E y \in 1..Len(Chosen) :
       /\ Cardinality(PointsOf(Chosen[y].style)) = 2
       /\ Chosen[y].velocity # RZero
       /\ \E r \in PointsOf(Chosen[y].style) : r.velocity # Chosen[y].velocity

\* an accepted candidate of a category without any row in a table that has
\* rows of another category
C12_NoPointReached ==
  /\ Answered /\ rec.trows # {}
  /\ \E x \in 1..Len(Chosen) :
       PointsOf(Chosen[x].style) = {} /\ Chosen[x].velocity = RZero

\* day j of the series carries twice the count b of every other day
SpikeAt(j) ==
  \E b \in CountValues :
    /\ series.counts[j] = 2 * b
    /\ \A i \in 1..Len(series.counts) : i # j => series.counts[i] = b

\* C13: when the counts of a category are a constant b on every observed
\* day but one, not the first, where they are 2b, the velocity is above 0
\* on that day and below 0 on the next observed day, for every span from 1
\* up.
C13_SpikeUpThenDown ==
  series.done =>
    \A j \in 2..Len(series.counts) :
      SpikeAt(j) =>
        /\ RLess(RZero, series.velocity[j])
        /\ j < Len(series.counts) => RLess(series.velocity[j + 1], RZero)

\* span 1 and counts 2, 4, 2, 2: the velocity is 2 on the doubled day and
\* -2 on the day after
C13_Witness ==
  /\ series.done /\ series.span = 1 /\ series.counts = <<2, 4, 2, 2>>
  /\ SpikeAt(2)
  /\ series.velocity[2] = <<2, 1>> /\ series.velocity[3] = <<-2, 1>>

\* the same counts under the default span
C13_DefaultSpanReached ==
  /\ series.done /\ series.span = DefaultSpan /\ series.counts = <<2, 4, 2, 2>>
  /\ RLess(RZero, series.velocity[2]) /\ RLess(series.velocity[3], RZero)

\* C14: a recommend call that reads table trends while a run of
\* calc_trends is under way reads all the rows the table had when the run
\* began or all the rows the run computed, never the emptied or the partly
\* filled table of the open transaction.
C14_ReadsOldOrNewTable ==
  [][(select_trends /\ txn.pc # "idle" /\ rec'.nreads = 2) =>
       \/ rec'.trows = txn.old.rows
       \/ rec'.trows = txn.out]_vars

\* a call answered after the DELETE of a run that replaces a table with
\* rows by other rows, and before its INSERT: it read its rows of items
\* after the run had read its own, and the rows of trends of before
C14_Witness ==
  /\ rec.nreads = 2 /\ txn.pc = "deleted"
  /\ txn.old.rows # {} /\ txn.out # txn.old.rows
  /\ txn.work = {}
  /\ Len(rec.items) > Len(txn.read)
  /\ rec.trows = txn.old.rows

\* the (style, day) pairs with at least one row in the table items that
\* the run read
PairsRead ==
  {<<txn.read[i].style, txn.read[i].day>> :
     i \in {j \in 1..Len(txn.read) : txn.read[j].day # NoDay}}

\* C15: when a run of calc_trends ends with its commit, table trends
\* holds one row for each (style, day) with an item in the table items the
\* run read, with the number of these items as count, and no other row,
\* so none of an earlier run.
C15_TableIsExactlyTheRunsRows ==
  [][commit_trends =>
       /\ trends'.exists
       /\ \A r \in trends'.rows :
            /\ <<r.style, r.day>> \in PairsRead
            /\ r.count = CountOf(txn.read, r.style, r.day)
            /\ \A o \in trends'.rows : (o.style = r.style /\ o.day = r.day) => o = r
       /\ \A pr \in PairsRead : \E r \in trends'.rows : r.style = pr[1] /\ r.day = pr[2]]_vars

\* after a commit: the table holds the rows of the first two rows of a
\* table items that has grown to three since, with a count of 2, and these
\* are not the rows of the first row alone
C15_Witness ==
  /\ txn.pc = "idle" /\ Len(items) = 3
  /\ trends.rows = TrendRows(SubSeq(items, 1, 2), DefaultSpan)
  /\ trends.rows # TrendRows(SubSeq(items, 1, 1), DefaultSpan)
  /\ \E r \in trends.rows : r.count = 2

\* a run about to commit over a table whose rows it does not keep
C15_ReplacesEarlierRows ==
  /\ txn.pc = "inserted" /\ txn.old.rows # {}
  /\ \E o \in txn.old.rows : o \notin txn.work

\* a run over a table items without a row with a day has raised at its
\* INSERT: it has left a table trends without rows
C15_EmptyCatalogRun ==
  /\ txn.pc = "idle" /\ TrendRows(items, DefaultSpan) = {}
  /\ trends.exists /\ trends.rows = {}

\* C16: a run of build_faiss that ends without completing (it raises or
\* is stopped) leaves data/index.faiss as it was when the run began, and
\* the file, when it exists, is always one that a build wrote to its end.
C16_UnfinishedBuildLeavesFile ==
  /\ [][(stop_build \/ (stack_rows /\ job'.pc = "idle")) => indexFile' = job.old]_vars
  /\ [](indexFile.present => indexFile.whole)

\* a run about to raise on embeddings of different lengths, the file of an
\* earlier run in place
C16_RaisedBuildReached ==
  /\ job.pc = "read" /\ ~SameLength(job.X)
  /\ job.old.present /\ indexFile = job.old

\* C17: every vector of data/index.faiss, once a build has written it to
\* its end, has unit length; an embedding of norm 0 is in no built index.
C17_StoredVectorsAreUnit ==
  (indexFile.present /\ indexFile.whole) =>
    \A i \in 1..Len(indexFile.vecs) :
      Dot(indexFile.vecs[i], indexFile.vecs[i]) = Unit * Unit

\* C18: a call searches the index of one finished build (the normalized
\* embeddings of the catalog as a run read it), and a call that starts
\* when a finished build's file is in place and no run is under way
\* searches the vectors of that file.
C18_SearchesWholePublishedSnapshot ==
  [][(rec = Idle /\ rec'.nsearch = 1) =>
       /\ \E n \in 1..Len(items) : index = [i \in 1..n |-> Normalize(items[i].emb)]
       /\ (job.pc = "idle" /\ indexFile.present /\ indexFile.whole) =>
            index = indexFile.vecs]_vars

\* a call that searched the index of one finished build while a later run
\* was writing the file
C18_WholeSnapshotDuringWrite ==
  /\ rec.nsearch = 1 /\ job.pc = "writing" /\ ~indexFile.whole
  /\ index = job.old.vecs /\ Len(index) > 0

\* the labels of the slots the walk of the call has taken
WalkedLabels == {rec.pool[rec.walked[x]].label : x \in 1..Len(rec.walked)}

\* position l of the loaded index holds the embedding of the row that
\* position l of table items, as read by the call, holds
ResolvesToBuildRow(l) ==
  /\ 0 <= l /\ l < Len(rec.items) /\ l < Len(index)
  /\ index[l + 1] = Normalize(rec.items[l + 1].emb)

\* C19: every position that the search hands to the walk lies within the
\* rows of table items as read by the call, and the row it resolves to is
\* the row whose embedding the build stored at that position.
C19_PositionsResolveToBuildRows ==
  (rec.nreads = 2 /\ rec.k >= 1) =>
    \A l \in WalkedLabels : ResolvesToBuildRow(l)

\* the same for the positions that are positions of a stored vector
C19_StoredPositionsResolve ==
  (rec.nreads = 2 /\ rec.k >= 1) =>
    \A l \in WalkedLabels : l # NoLabel => ResolvesToBuildRow(l)

\* velocity tables other than the one in place: none, and one style with
\* a velocity of -8 or of 8
TrendTables ==
  {{}} \cup {{[style |-> s, day |-> 1, count |-> 1, ema |-> <<1, 1>>, velocity |-> <<v, 1>>]}
             : s \in {"formal", "streetwear"}, v \in {-8, 8}}

\* the answer to the call of rec, with its pool, under the table tr
Rerun(tr) ==
  SortReverse(Walk(rec.items, tr, rec.styles, rec.k, rec.pool, WalkOrder(Len(rec.pool)), 1,
                   [failed |-> FALSE, walked |-> <<>>, chosen |-> <<>>]).chosen)

\* the items of an answer: the candidate, its file and its style
ItemsOf(ch) == {<<ch[x].rank, ch[x].path, ch[x].style>> : x \in 1..Len(ch)}

\* C20: for the index, query, filter and k of an answered call, the answer
\* under any other velocity table has the same items as the answer given;
\* only their order and scores can differ, and no candidate behind the
\* first k candidates that pass the filter is in it, whatever its boost.
C20_SameItemsWhateverTheTrends ==
  Answered =>
    \A tr \in TrendTables :
      LET again == Rerun(tr)
      IN  /\ ItemsOf(again) = ItemsOf(Chosen)
          /\ \A x \in 1..Len(again) :
               Cardinality({i \in Slots : i < again[x].rank /\ SlotPasses(i)}) < rec.k

\* an answer of k items and a stored candidate of another style behind
\* them that passes the filter, that another table scores above them all
\* and that is not in the answer under that table either
C20_Witness ==
  /\ Answered /\ rec.k >= 1 /\ Len(Chosen) = rec.k
  /\ \E i \in Slots, tr \in TrendTables :
       /\ rec.pool[i].label # NoLabel /\ SlotPasses(i)
       /\ \A x \in 1..rec.k : Chosen[x].rank # i /\ Chosen[x].style # SlotRow(i).style
       /\ \A x \in 1..rec.k : RLess(Rerun(tr)[x].score, Entry(rec.items, tr, rec.pool, i).score)
       /\ \A x \in 1..rec.k : Rerun(tr)[x].rank # i

\* an answer of two items that come in the other order under another table
C20_OrderChanges ==
  /\ Answered /\ rec.k = 2 /\ Len(Chosen) = 2
  /\ \E tr \in TrendTables :
       Rerun(tr)[1].rank = Chosen[2].rank /\ Rerun(tr)[2].rank = Chosen[1].rank

====
